---- MODULE Spec2Model ----
(***************************************************************************)
(* CustomCoinChart (src/task1/src/componet/CustomCoinChart.tsx): the fetch *)
(* effect (one fetchCoinData run per selection, each with its own          *)
(* AbortController) and the generateAnalysis handler, over the component's *)
(* React state.                                                            *)
(*                                                                         *)
(* Scheduling.  JavaScript runs one task at a time.  A user event (a       *)
(* Select onChange, a click) and the arrival of a network response are     *)
(* tasks; the continuation of an await is a microtask and runs before the  *)
(* next task.  A selection change re-renders, runs the effect cleanup      *)
(* (controller.abort()) and the new effect (fetchCoinData up to its first  *)
(* await) in one task; the rejection that abort() causes in the old run is *)
(* handled in a microtask right after it.  Every action below is one task  *)
(* or one microtask, and tasks wait for pending microtasks.                *)
(*                                                                         *)
(* Fields named "cycle" and "cur" inside coinDetails / chartData, and the  *)
(* fields sent / results / cancelled of a cycle, are history: they record  *)
(* which run wrote a value and what the run did, and no guard reads them.  *)
(***************************************************************************)
EXTENDS Integers, Sequences, FiniteSets, TLC

\* Number of fetchCoinData runs (effect executions) explored.
MaxCycles == 3

\* ALL_SUPPORTED_COINS / ALL_SUPPORTED_CURRENCIES ids (two of each).
Coins == {"bitcoin", "ethereum"}
Currencies == {"usd", "eur"}

VARIABLES
    selectedCoinId,      \* useState('bitcoin')
    selectedCurrencyId,  \* useState('usd')
    days,                \* useState(7); no setter, so it never changes
    chartData,           \* useState<ChartData[]>([])
    coinDetails,         \* useState<CoinDetails | null>(null)
    loading,             \* useState(true)
    error,               \* useState<string | null>(null)
    analysisText,        \* useState('')
    generatingAnalysis,  \* useState(false)
    cycles,              \* the fetchCoinData runs started so far, oldest first
    apiKey,              \* the const apiKey of generateAnalysis (deployment value)
    gen                  \* the generateAnalysis run in flight, if any

vars == <<selectedCoinId, selectedCurrencyId, days, chartData, coinDetails, loading,
          error, analysisText, generatingAnalysis, cycles, apiKey, gen>>

fetchState == <<selectedCoinId, selectedCurrencyId, days, chartData, coinDetails,
                loading, error, cycles>>
analysisState == <<analysisText, generatingAnalysis, apiKey, gen>>

----------------------------------------------------------------------------
(* Values *)

NoError == "null"
FetchErrorText == "Failed to fetch data. Please try again."

\* coinDetails === null
NoDetails == [present |-> FALSE]
\* chartData === [] as left by useState([]) and by the catch block
NoChart == [cycle |-> 0, points |-> <<>>]

Undefined == "undefined"

\* The price-data provider's name and symbol of a coin.
CoinName(c) == IF c = "bitcoin" THEN "Bitcoin" ELSE "Ethereum"
CoinSymbol(c) == IF c = "bitcoin" THEN "btc" ELSE "eth"

\* String.prototype.toUpperCase on the strings that occur.
ToUpperCase(s) ==
    CASE s = "btc" -> "BTC"
      [] s = "eth" -> "ETH"
      [] s = "usd" -> "USD"
      [] s = "eur" -> "EUR"
      [] OTHER -> s

\* Snapshot response bodies (detailsRes.data): which fields are there.
\* market: "full" | "noprice" (no current_price[currency]) |
\*         "nopct" (no price_change_percentage_24h) | "absent" (no market_data)
DetailsBodies ==
    { [name |-> TRUE,  symbol |-> TRUE,  image |-> TRUE,  market |-> "full"],
      [name |-> TRUE,  symbol |-> TRUE,  image |-> TRUE,  market |-> "absent"],
      [name |-> TRUE,  symbol |-> TRUE,  image |-> TRUE,  market |-> "noprice"],
      [name |-> TRUE,  symbol |-> TRUE,  image |-> TRUE,  market |-> "nopct"],
      [name |-> TRUE,  symbol |-> TRUE,  image |-> FALSE, market |-> "full"],
      [name |-> FALSE, symbol |-> TRUE,  image |-> TRUE,  market |-> "full"],
      [name |-> TRUE,  symbol |-> FALSE, image |-> TRUE,  market |-> "full"] }

\* The provider's price of a coin in a currency, and its 24h change in
\* hundredths of a percent (-250 is -2.5%).
ProviderPrice(c, k) ==
    (IF c = "bitcoin" THEN 65000 ELSE 3000) - (IF k = "eur" THEN 500 ELSE 0)
ProviderPct(c) == IF c = "bitcoin" THEN -250 ELSE 120

\* Price-series response bodies (chartRes.data.prices): [timestamp, price]
\* pairs, timestamps in hours since the epoch, prices in thousandths.
ChartBodies ==
    { <<>>,
      << <<48, 1234500>>, <<72, 1234567>> >> }

----------------------------------------------------------------------------
(* Pure helpers of fetchCoinData *)

\* Faulty variant of currentPrice: no "|| 0"; -1 stands for undefined.
currentPriceNoFallback(body, c, k) ==
    IF body.market \in {"full", "nopct"} THEN ProviderPrice(c, k) ELSE -1
\* detailsRes.data.market_data?.current_price?.[selectedCurrencyId] || 0
currentPrice(body, c, k) ==
    IF body.market \in {"full", "nopct"} THEN ProviderPrice(c, k) ELSE 0

\* detailsRes.data.market_data?.price_change_percentage_24h || 0
priceChange24h(body, c) ==
    IF body.market \in {"full", "noprice"} THEN ProviderPct(c) ELSE 0

\* Faulty variant of formatTime: the date format stops one day early.
formatTimeEarlyMonth(timestamp) ==
    IF days <= 1 THEN [fmt |-> "hour:minute", at |-> timestamp]
    ELSE IF days < 30 THEN [fmt |-> "date", at |-> timestamp \div 24]
    ELSE [fmt |-> "month year", at |-> timestamp \div 720]
\* formatTime(timestamp): the branch taken depends on days alone.
formatTime(timestamp) ==
    IF days <= 1 THEN [fmt |-> "hour:minute", at |-> timestamp]
    ELSE IF days <= 30 THEN [fmt |-> "date", at |-> timestamp \div 24]
    ELSE [fmt |-> "month year", at |-> timestamp \div 720]

\* +price.toFixed(2): thousandths rounded half up to hundredths.
toFixed2(price) == (price + 5) \div 10

\* chartRes.data.prices.map(([timestamp, price]) => ({time, price}))
formattedChartData(prices) ==
    [i \in 1..Len(prices) |->
        [time |-> formatTime(prices[i][1]), price |-> toFixed2(prices[i][2])]]

\* The object passed to setCoinDetails by run n for (c, k).
NewCoinDetails(n, body, c, k) ==
    [present |-> TRUE, cycle |-> n, cur |-> k,
     id |-> c,
     name |-> IF body.name THEN CoinName(c) ELSE Undefined,
     symbol |-> ToUpperCase(CoinSymbol(c)),
     image |-> IF body.image THEN "small.png" ELSE "",
     current_price |-> currentPrice(body, c, k),
     price_change_percentage_24h |-> priceChange24h(body, c)]

\* Faulty variant of isCancel: a cancellation is taken for a failure.
IsCancelNever(err) == FALSE
\* axios.isCancel(err)
isCancel(err) == err = "CanceledError"

\* Faulty variant of CatchBlock: a failure sets the error and keeps the data.
CatchKeepsData(err, e, cd, ch) ==
    IF isCancel(err) THEN <<e, cd, ch>> ELSE <<FetchErrorText, cd, ch>>
\* The catch block of fetchCoinData: the values of <<error, coinDetails,
\* chartData>> after it, given the values before it.
CatchBlock(err, e, cd, ch) ==
    IF isCancel(err)
    THEN <<e, cd, ch>>
    ELSE <<FetchErrorText, NoDetails, NoChart>>

\* Faulty variant of Finish: the run keeps awaiting after its result.
FinishStaysPending(c, res) == [c EXCEPT !.results = Append(@, res)]
\* The run after it has produced a final result and left the function.
Finish(c, res) == [c EXCEPT !.pc = "done", !.results = Append(@, res)]

----------------------------------------------------------------------------
(* The fetch effect *)

\* pc of a run: "awaitDetails" (line 74), "awaitChart" (line 92),
\* "rejected" (its awaited request was rejected by abort(); the catch block
\* has not run yet), "done".
Awaiting == {"awaitDetails", "awaitChart"}

MicrotaskPending == \E i \in DOMAIN cycles : cycles[i].pc = "rejected"

\* Faulty variant of NewCycle: both requests are issued at the start.
NewCycleParallel(c, k) ==
    [coin |-> c, cur |-> k, pc |-> "awaitDetails", aborted |-> FALSE,
     net |-> "inflight", sent |-> <<"details", "chart">>, results |-> <<>>,
     cancelled |-> FALSE]
\* fetchCoinData() up to its first await, for the selection (c, k).
NewCycle(c, k) ==
    [coin |-> c, cur |-> k, pc |-> "awaitDetails", aborted |-> FALSE,
     net |-> "inflight", sent |-> <<"details">>, results |-> <<>>,
     cancelled |-> FALSE]

\* Faulty variant of abort: the signal is not passed to axios.get, so the
\* pending request goes on.
abortNotWired(c) == [c EXCEPT !.aborted = TRUE]
\* controller.abort() (the effect cleanup) on a run: a request the run is
\* awaiting is rejected with a CanceledError; a finished run has none.
abort(c) ==
    IF c.pc \in Awaiting
    THEN [c EXCEPT !.aborted = TRUE, !.pc = "rejected", !.net = "closed"]
    ELSE [c EXCEPT !.aborted = TRUE]

\* Faulty variant of Cleanup: the effect returns no cleanup function.
CleanupMissing(cs) == cs
\* The cleanup of the previous effect run: it aborts the newest run.
Cleanup(cs) ==
    [i \in DOMAIN cs |-> IF i = Len(cs) THEN abort(cs[i]) ELSE cs[i]]

\* The finally block: setLoading(false).
FinallyBlock == FALSE

\* Faulty variant of RunEffect: fetchCoinData starts without setError(null).
RunEffectKeepsError(c, k) ==
    /\ loading' = TRUE
    /\ error' = error
    /\ cycles' = Append(Cleanup(cycles), NewCycle(c, k))
\* The effect body after a render with selection (c, k): cleanup of the
\* previous run, then fetchCoinData() up to its first await.
RunEffect(c, k) ==
    /\ loading' = TRUE
    /\ error' = NoError
    /\ cycles' = Append(Cleanup(cycles), NewCycle(c, k))

\* First render: the effect runs for the initial selection.
Mount ==
    /\ cycles = <<>>
    /\ RunEffect(selectedCoinId, selectedCurrencyId)
    /\ UNCHANGED <<selectedCoinId, selectedCurrencyId, chartData, coinDetails>>
    /\ UNCHANGED analysisState
    /\ UNCHANGED days

\* Coin <Select onChange>: setSelectedCoinId, re-render, effect.
SelectCoin(c) ==
    /\ cycles # <<>>
    /\ ~MicrotaskPending
    /\ Len(cycles) < MaxCycles
    /\ c # selectedCoinId
    /\ selectedCoinId' = c
    /\ RunEffect(c, selectedCurrencyId)
    /\ UNCHANGED <<selectedCurrencyId, chartData, coinDetails>>
    /\ UNCHANGED analysisState
    /\ UNCHANGED days

\* Currency <Select onChange>: setSelectedCurrencyId, re-render, effect.
SelectCurrency(k) ==
    /\ cycles # <<>>
    /\ ~MicrotaskPending
    /\ Len(cycles) < MaxCycles
    /\ k # selectedCurrencyId
    /\ selectedCurrencyId' = k
    /\ RunEffect(selectedCoinId, k)
    /\ UNCHANGED <<selectedCoinId, chartData, coinDetails>>
    /\ UNCHANGED analysisState
    /\ UNCHANGED days

\* An exception err reaches the catch block of run i; then finally.
Throw(i, err) ==
    LET r == CatchBlock(err, error, coinDetails, chartData) IN
    /\ error' = r[1]
    /\ coinDetails' = r[2]
    /\ chartData' = r[3]
    /\ loading' = FinallyBlock
    /\ cycles' = [cycles EXCEPT ![i] =
                    IF isCancel(err)
                    THEN [@ EXCEPT !.pc = "done", !.cancelled = TRUE]
                    ELSE Finish(@, "failed")]

\* The microtask after abort(): the awaited request rejects with a
\* CanceledError.
CancelHandled(i) ==
    /\ i \in DOMAIN cycles
    /\ cycles[i].pc = "rejected"
    /\ Throw(i, "CanceledError")
    /\ UNCHANGED <<selectedCoinId, selectedCurrencyId>>
    /\ UNCHANGED analysisState
    /\ UNCHANGED days

\* A request of run i that can still be answered.
Answerable(i, at) ==
    /\ i \in DOMAIN cycles
    /\ ~MicrotaskPending
    /\ cycles[i].pc = at
    /\ cycles[i].net = "inflight"

\* The snapshot request resolves with body: lines 80-95, or a TypeError at
\* line 86 when data.symbol is undefined.
DetailsResponds(i, body) ==
    /\ Answerable(i, "awaitDetails")
    /\ IF body.symbol
       THEN /\ coinDetails' =
                  NewCoinDetails(i, body, cycles[i].coin, cycles[i].cur)
            /\ cycles' = [cycles EXCEPT ![i].pc = "awaitChart",
                                        ![i].sent = Append(@, "chart")]
            /\ UNCHANGED <<chartData, loading, error>>
       ELSE Throw(i, "TypeError")
    /\ UNCHANGED <<selectedCoinId, selectedCurrencyId>>
    /\ UNCHANGED analysisState
    /\ UNCHANGED days

\* The snapshot request rejects: network failure or non-2xx status.
DetailsFails(i) ==
    /\ Answerable(i, "awaitDetails")
    /\ Throw(i, "AxiosError")
    /\ UNCHANGED <<selectedCoinId, selectedCurrencyId>>
    /\ UNCHANGED analysisState
    /\ UNCHANGED days

\* The price-series request resolves with prices: lines 110-114, finally.
ChartResponds(i, prices) ==
    /\ Answerable(i, "awaitChart")
    /\ chartData' = [cycle |-> i, points |-> formattedChartData(prices)]
    /\ loading' = FinallyBlock
    /\ cycles' = [cycles EXCEPT ![i] = Finish(@, "success")]
    /\ UNCHANGED <<selectedCoinId, selectedCurrencyId, coinDetails, error>>
    /\ UNCHANGED analysisState
    /\ UNCHANGED days

\* The price-series request rejects (network, status), or its body has no
\* prices array (TypeError at line 110).
ChartFails(i, err) ==
    /\ Answerable(i, "awaitChart")
    /\ err \in {"AxiosError", "TypeError"}
    /\ Throw(i, err)
    /\ UNCHANGED <<selectedCoinId, selectedCurrencyId>>
    /\ UNCHANGED analysisState
    /\ UNCHANGED days

\* The provider never answers a request of run i.  axios.get is called
\* without a timeout option (lines 74-77, 92-95), so nothing else ends it.
RequestLost(i) ==
    /\ Answerable(i, cycles[i].pc)
    /\ cycles[i].pc \in Awaiting
    /\ cycles' = [cycles EXCEPT ![i].net = "lost"]
    /\ UNCHANGED <<selectedCoinId, selectedCurrencyId, chartData, coinDetails,
                   loading, error>>
    /\ UNCHANGED analysisState
    /\ UNCHANGED days

----------------------------------------------------------------------------
(* generateAnalysis *)

Placeholder == "YOUR_GEMINI_API_KEY_HERE"
\* Values of the const apiKey: the shipped placeholder, an empty key, and
\* a key put there as the comment on line 180 asks.
ApiKeys == {Placeholder, "", "a-valid-key"}

NoDataText == "No data available to generate analysis."
GeneratingText == "Generating analysis..."
UnexpectedText ==
    "Failed to generate analysis. Unexpected LLM response structure."
ConfigMessage ==
    "Gemini API Key is not configured. Please set a valid API key or use environment variables."

\* `Error generating analysis: ${llmError.message || "Unknown error"}. ...`
ErrorText(message) ==
    CASE message = ConfigMessage ->
            "Error generating analysis: Gemini API Key is not configured. Please set a valid API key or use environment variables.. Check console for details."
      [] message = "Failed to fetch" ->
            "Error generating analysis: Failed to fetch. Check console for details."
      [] message = "LLM API request failed with status 500" ->
            "Error generating analysis: LLM API request failed with status 500. Check console for details."
      [] OTHER ->
            "Error generating analysis: Unknown error. Check console for details."

\* The text of the first candidate, for a prompt about the coin named name.
CandidateText(name) ==
    CASE name = "Bitcoin" -> "Bitcoin trended down this week."
      [] name = "Ethereum" -> "Ethereum trended up this week."
      [] OTHER -> "The coin moved sideways."

\* getCurrencySymbol(currencyId)
getCurrencySymbol(currencyId) ==
    CASE currencyId = "usd" -> "$"
      [] currencyId = "eur" -> "EUR-sign"
      [] OTHER -> ""

NoPrompt == [built |-> FALSE]
\* inflight counts the calls of generateAnalysis that are at their await.
Idle == [pc |-> "idle", prompt |-> NoPrompt, inflight |-> 0]

\* The prompt of lines 161-167, from the state of the render the handler
\* closes over.
BuildPrompt ==
    [built |-> TRUE,
     name |-> coinDetails.name,
     symbol |-> coinDetails.symbol,
     currency |-> ToUpperCase(selectedCurrencyId),
     currencySymbol |-> getCurrencySymbol(selectedCurrencyId),
     current_price |-> coinDetails.current_price,
     price_change_percentage_24h |-> coinDetails.price_change_percentage_24h,
     days |-> days,
     points |-> chartData.points,
     priceCur |-> coinDetails.cur,
     detailsCycle |-> coinDetails.cycle,
     chartCycle |-> chartData.cycle]

\* Faulty variant of NoData: the length of the series is not looked at.
NoDataIgnoresSeries == ~coinDetails.present
\* !coinDetails || chartData.length === 0   (line 150)
NoData == ~coinDetails.present \/ Len(chartData.points) = 0

\* Faulty variant of KeyMissing: only the empty key is refused.
KeyOnlyEmpty(key) == key = ""
\* !apiKey || apiKey === 'YOUR_GEMINI_API_KEY_HERE'   (line 182)
KeyMissing(key) == key = "" \/ key = Placeholder

\* The finally block of generateAnalysis: setGeneratingAnalysis(false).
GenFinally == FALSE

\* generateAnalysis up to its first await (the fetch of line 189), or to
\* its return when it does not get there.
generateAnalysis ==
    IF NoData
    THEN /\ analysisText' = NoDataText
         /\ UNCHANGED <<generatingAnalysis, gen>>
    ELSE IF KeyMissing(apiKey)
    THEN /\ analysisText' = ErrorText(ConfigMessage)
         /\ generatingAnalysis' = GenFinally
         /\ gen' = Idle
    ELSE /\ analysisText' = GeneratingText
         /\ generatingAnalysis' = TRUE
         /\ gen' = [pc |-> "awaitFetch", prompt |-> BuildPrompt,
                    inflight |-> gen.inflight + 1]

\* Faulty variant of GenerateDisabled: generatingAnalysis is not looked at.
DisabledIgnoresGenerating ==
    loading \/ ~coinDetails.present \/ Len(chartData.points) = 0
\* disabled={loading || generatingAnalysis || !coinDetails ||
\*           chartData.length === 0}   (line 360)
GenerateDisabled ==
    loading \/ generatingAnalysis \/ ~coinDetails.present
        \/ Len(chartData.points) = 0

\* Faulty variant of ClickGenerate: the handler also raises the loading flag.
ClickGenerateSetsLoading ==
    /\ ~MicrotaskPending
    /\ ~GenerateDisabled
    /\ generateAnalysis
    /\ loading' = TRUE
    /\ UNCHANGED <<selectedCoinId, selectedCurrencyId, days, chartData,
                   coinDetails, error, cycles>>
    /\ UNCHANGED apiKey
\* A click on the Generate Analysis button.
ClickGenerate ==
    /\ ~MicrotaskPending
    /\ ~GenerateDisabled
    /\ generateAnalysis
    /\ UNCHANGED fetchState
    /\ UNCHANGED apiKey

\* generateAnalysis called as a function, whatever the button shows, when
\* no other call is in flight.
CallGenerate ==
    /\ ~MicrotaskPending
    /\ gen.pc = "idle"
    /\ generateAnalysis
    /\ UNCHANGED fetchState
    /\ UNCHANGED apiKey

LLMOutcomes == {"rejected", "status", "unexpected", "text"}

\* The fetch of line 189 settles; lines 195-221.  The awaits of
\* response.text() and response.json() write no state and are folded in
\* (a rejected response.json() takes the catch block like a rejected fetch).
LLMResponds(outcome) ==
    /\ ~MicrotaskPending
    /\ gen.pc = "awaitFetch"
    /\ analysisText' =
          CASE outcome = "rejected" -> ErrorText("Failed to fetch")
            [] outcome = "status" ->
                   ErrorText("LLM API request failed with status 500")
            [] outcome = "unexpected" -> UnexpectedText
            [] outcome = "text" -> CandidateText(gen.prompt.name)
    /\ generatingAnalysis' = GenFinally
    /\ gen' = IF gen.inflight > 1
              THEN [gen EXCEPT !.inflight = @ - 1]
              ELSE Idle
    /\ UNCHANGED fetchState
    /\ UNCHANGED apiKey

----------------------------------------------------------------------------
(* Specifications *)

Init ==
    /\ selectedCoinId = "bitcoin"
    /\ selectedCurrencyId = "usd"
    /\ days = 7
    /\ chartData = NoChart
    /\ coinDetails = NoDetails
    /\ loading = TRUE
    /\ error = NoError
    /\ analysisText = ""
    /\ generatingAnalysis = FALSE
    /\ cycles = <<>>
    /\ apiKey \in ApiKeys
    /\ gen = Idle

Cycle == 1..MaxCycles

FetchStep ==
    \/ Mount
    \/ \E c \in Coins : SelectCoin(c)
    \/ \E k \in Currencies : SelectCurrency(k)
    \/ \E i \in Cycle : CancelHandled(i)
    \/ \E i \in Cycle, body \in DetailsBodies : DetailsResponds(i, body)
    \/ \E i \in Cycle : DetailsFails(i)
    \/ \E i \in Cycle, prices \in ChartBodies : ChartResponds(i, prices)
    \/ \E i \in Cycle, err \in {"AxiosError", "TypeError"} : ChartFails(i, err)
    \/ \E i \in Cycle : RequestLost(i)

Next ==
    \/ FetchStep
    \/ ClickGenerate
    \/ \E outcome \in LLMOutcomes : LLMResponds(outcome)

Spec == Init /\ [][Next]_vars

\* The component with generateAnalysis also called directly.
NextCall == Next \/ CallGenerate
CallSpec == Init /\ [][NextCall]_vars

\* What the runtime guarantees: the first effect runs, a pending microtask
\* runs, and every request in flight is answered or lost.  Nothing obliges
\* the user to act.
ProviderStep ==
    \/ \E i \in Cycle, body \in DetailsBodies : DetailsResponds(i, body)
    \/ \E i \in Cycle : DetailsFails(i)
    \/ \E i \in Cycle, prices \in ChartBodies : ChartResponds(i, prices)
    \/ \E i \in Cycle, err \in {"AxiosError", "TypeError"} : ChartFails(i, err)
    \/ \E i \in Cycle : RequestLost(i)

FairSpec ==
    /\ Spec
    /\ WF_vars(Mount)
    /\ WF_vars(\E i \in Cycle : CancelHandled(i))
    /\ WF_vars(ProviderStep)

\* formatTime over the ranges it distinguishes: the fetch effect alone,
\* started with days drawn from both sides of its two thresholds.
RangeDays == {1, 2, 30, 31}

DaysInit ==
    /\ selectedCoinId = "bitcoin"
    /\ selectedCurrencyId = "usd"
    /\ days \in RangeDays
    /\ chartData = NoChart
    /\ coinDetails = NoDetails
    /\ loading = TRUE
    /\ error = NoError
    /\ analysisText = ""
    /\ generatingAnalysis = FALSE
    /\ cycles = <<>>
    /\ apiKey = Placeholder
    /\ gen = Idle

DaysSpec == DaysInit /\ [][FetchStep]_vars

----------------------------------------------------------------------------
(* Properties *)

LastCycle == Len(cycles)

\* Run i was outstanding when the selection changed: abort() rejected the
\* request it was awaiting.
Superseded(i) == cycles[i].pc = "rejected" \/ cycles[i].cancelled

\* C1: last-selection-wins.  Once the newest run has produced its result,
\* the snapshot, series and error held are that run's (its data and no
\* error after Success; no data and the error after Failed), and no step of
\* an older run changes the snapshot, the series or the error.
C1_LastSelectionWins ==
    /\ [](\A n \in DOMAIN cycles :
            n = LastCycle =>
              /\ cycles[n].results = <<"success">> =>
                    /\ coinDetails.present
                    /\ coinDetails.cycle = n
                    /\ chartData.cycle = n
                    /\ error = NoError
              /\ cycles[n].results = <<"failed">> =>
                    /\ coinDetails = NoDetails
                    /\ chartData = NoChart
                    /\ error = FetchErrorText)
    /\ [][\A i \in DOMAIN cycles :
            (i < LastCycle /\ cycles'[i] # cycles[i]) =>
                UNCHANGED <<coinDetails, chartData, error>>]_vars

\* A run that was cancelled while outstanding, followed by a run that
\* succeeded.
C1_Witness ==
    /\ LastCycle >= 2
    /\ cycles[LastCycle - 1].cancelled
    /\ cycles[LastCycle].results = <<"success">>

\* C2: from its abort on, no step of a cancelled run changes the snapshot,
\* the series, the error or the loading flag.
C2_NoWriteAfterAbort ==
    [][\A i \in DOMAIN cycles :
          (cycles[i].aborted /\ cycles'[i] # cycles[i]) =>
              UNCHANGED <<coinDetails, chartData, error, loading>>]_vars

\* C3: a snapshot and a non-empty series held together were written by the
\* same run.
C3_SameCycle ==
    (coinDetails.present /\ Len(chartData.points) > 0) =>
        coinDetails.cycle = chartData.cycle

\* C4: after the selection changed while run i was outstanding, the state
\* never holds a snapshot or a series written by run i, and when the newest
\* run has succeeded the state holds that run's snapshot and series.
C4_NoStaleData ==
    /\ \A i \in DOMAIN cycles :
          Superseded(i) =>
              /\ ~(coinDetails.present /\ coinDetails.cycle = i)
              /\ chartData.cycle # i
    /\ (LastCycle >= 1 /\ cycles[LastCycle].results = <<"success">>) =>
          /\ coinDetails.present
          /\ coinDetails.cycle = LastCycle
          /\ chartData.cycle = LastCycle

\* C5: the step that handles a cancellation (the rejection caused by
\* abort()) leaves the error, the snapshot and the series as they were.
C5_CancelIsNoError ==
    [][\A i \in DOMAIN cycles :
          (cycles[i].pc = "rejected" /\ cycles'[i].pc # "rejected") =>
              /\ error' = error
              /\ coinDetails' = coinDetails
              /\ chartData' = chartData]_vars

\* The cancellation of run i was handled while the successful result of
\* run i - 1 was on display, and that result is still held.
C5_Witness ==
    \E i \in DOMAIN cycles :
        /\ i >= 2
        /\ cycles[i].cancelled
        /\ cycles[i - 1].results = <<"success">>
        /\ coinDetails.present
        /\ coinDetails.cycle = i - 1
        /\ chartData.cycle = i - 1
        /\ Len(chartData.points) > 0
        /\ error = NoError

\* C6: the step in which a run ends in Failed sets the error message and
\* clears both the snapshot and the series.
C6_FailureClears ==
    [][\A i \in DOMAIN cycles :
          (cycles'[i].results # cycles[i].results
             /\ cycles'[i].results[Len(cycles'[i].results)] = "failed") =>
              /\ error' = FetchErrorText
              /\ coinDetails' = NoDetails
              /\ chartData' = NoChart]_vars

\* The series request of a run failed after the run had written its
\* snapshot, while the previous run's successful data was on display.
C6_Witness ==
    /\ LastCycle >= 2
    /\ cycles[LastCycle - 1].results = <<"success">>
    /\ cycles[LastCycle].sent = <<"details", "chart">>
    /\ cycles[LastCycle].results = <<"failed">>
    /\ error = FetchErrorText

\* C7: a call of generateAnalysis without a snapshot or with an empty
\* series only writes the no-data text: no request is in flight after it
\* and generatingAnalysis is not set.
C7_NoDataNoCall ==
    [][((~coinDetails.present \/ Len(chartData.points) = 0)
          /\ gen.pc = "idle" /\ analysisText' # analysisText) =>
              /\ analysisText' = NoDataText
              /\ gen' = Idle
              /\ generatingAnalysis' = FALSE
              /\ generatingAnalysis = FALSE]_vars

\* generateAnalysis has returned the no-data text with a snapshot held and
\* an empty series.
C7_Witness ==
    /\ analysisText = NoDataText
    /\ coinDetails.present
    /\ Len(chartData.points) = 0
    /\ gen.pc = "idle"

\* C8: with a missing or placeholder key no request to the generative-text
\* provider is ever in flight and generatingAnalysis is false in every
\* state; a call of generateAnalysis with data leaves the
\* configuration-error text.
C8_KeyGuard ==
    /\ [](apiKey \in {"", Placeholder} =>
            gen.pc = "idle" /\ generatingAnalysis = FALSE)
    /\ [][(apiKey \in {"", Placeholder}
             /\ coinDetails.present /\ Len(chartData.points) > 0
             /\ analysisText' # analysisText) =>
                /\ analysisText' = ErrorText(ConfigMessage)
                /\ gen' = Idle
                /\ generatingAnalysis' = FALSE]_vars

\* generateAnalysis has failed with the configuration error under the
\* placeholder key.
C8_Witness ==
    /\ apiKey = Placeholder
    /\ analysisText = ErrorText(ConfigMessage)
    /\ generatingAnalysis = FALSE
    /\ gen.pc = "idle"

\* C9: every run that is awaiting a request eventually reaches Success or
\* Failed, or is superseded by a newer run.
C9_EveryCycleEnds ==
    \A i \in Cycle :
        (i \in DOMAIN cycles /\ cycles[i].pc \in Awaiting)
            ~> (i \in DOMAIN cycles
                  /\ (cycles[i].results # <<>> \/ LastCycle > i))

\* C10: a run produces at most one final result.
C10_OneResult ==
    \A i \in DOMAIN cycles : Len(cycles[i].results) <= 1

\* One run has ended in Success and another in Failed.
C10_Witness ==
    \E i, j \in DOMAIN cycles :
        /\ cycles[i].results = <<"success">>
        /\ cycles[j].results = <<"failed">>

\* C11: at most one call of generateAnalysis is at its await; while one
\* is, generatingAnalysis is true, and whenever generatingAnalysis is true
\* the generate button is disabled.
C11_OneGeneration ==
    /\ gen.inflight <= 1
    /\ gen.inflight >= 1 => generatingAnalysis
    /\ generatingAnalysis => GenerateDisabled

\* A generation is in flight while all the other conditions of the button
\* would enable it.
C11_Witness ==
    /\ gen.inflight = 1
    /\ generatingAnalysis
    /\ ~loading
    /\ coinDetails.present
    /\ Len(chartData.points) > 0

\* C12: a snapshot response without market_data, without the price of the
\* selected currency or without the 24h percentage does not fail the step:
\* the run writes its snapshot with 0 for each missing number (both are 0
\* when market_data is missing) and goes on to request the price series.
C12_MissingMarketData ==
    [][\A i \in Cycle, body \in DetailsBodies :
          (body.symbol /\ body.market # "full" /\ DetailsResponds(i, body)) =>
              /\ coinDetails'.present
              /\ coinDetails'.cycle = i
              /\ body.market \in {"absent", "noprice"} =>
                    coinDetails'.current_price = 0
              /\ body.market \in {"absent", "nopct"} =>
                    coinDetails'.price_change_percentage_24h = 0
              /\ cycles'[i].pc = "awaitChart"
              /\ cycles'[i].sent = <<"details", "chart">>
              /\ cycles'[i].results = <<>>
              /\ error' = error]_vars

\* A run has written a snapshot with both numbers 0 and is awaiting its
\* price series.
C12_Witness ==
    /\ coinDetails.present
    /\ coinDetails.current_price = 0
    /\ coinDetails.price_change_percentage_24h = 0
    /\ cycles[coinDetails.cycle].pc = "awaitChart"
    /\ error = NoError

\* C13: every label of the series held has the format that days selects:
\* hour:minute for days <= 1, a calendar date for 1 < days <= 30, month and
\* year for days > 30.
C13_LabelFormat ==
    \A n \in 1..Len(chartData.points) :
        chartData.points[n].time.fmt =
            IF days <= 1 THEN "hour:minute"
            ELSE IF days <= 30 THEN "date"
            ELSE "month year"

\* A two-point series formatted for a range of exactly 30 days.
C13_Witness ==
    /\ days = 30
    /\ Len(chartData.points) = 2
    /\ chartData.points[1].time.fmt = "date"
    /\ chartData.points[2].time.fmt = "date"

\* C14: a run issues one snapshot request and then at most one series
\* request.  The series request is issued in the step in which the run,
\* awaiting its snapshot, not aborted and without a result, writes its
\* snapshot; a run whose snapshot request failed or was cancelled issues
\* none.
C14_RequestOrder ==
    /\ [](\A i \in DOMAIN cycles :
            /\ cycles[i].sent \in {<<"details">>, <<"details", "chart">>}
            /\ cycles[i].pc = "awaitDetails" => cycles[i].sent = <<"details">>
            /\ cycles[i].pc = "awaitChart" =>
                  cycles[i].sent = <<"details", "chart">>)
    /\ [][\A i \in DOMAIN cycles :
            cycles'[i].sent # cycles[i].sent =>
                /\ cycles[i].pc = "awaitDetails"
                /\ ~cycles[i].aborted
                /\ cycles[i].results = <<>>
                /\ cycles'[i].pc = "awaitChart"
                /\ coinDetails'.present
                /\ coinDetails'.cycle = i]_vars

\* One run failed at its snapshot request and issued no series request,
\* one was cancelled at its snapshot request and issued none, and one
\* issued both.
C14_Witness ==
    \E i, j, k \in DOMAIN cycles :
        /\ cycles[i].results = <<"failed">>
        /\ cycles[i].sent = <<"details">>
        /\ cycles[j].cancelled
        /\ cycles[j].sent = <<"details">>
        /\ cycles[k].sent = <<"details", "chart">>

\* C15: every run but the newest has an aborted signal, and the newest
\* run, whose signal is not aborted, was started for the current selection.
C15_OneLiveSignal ==
    \A i \in DOMAIN cycles :
        IF i < LastCycle
        THEN cycles[i].aborted
        ELSE /\ ~cycles[i].aborted
             /\ cycles[i].coin = selectedCoinId
             /\ cycles[i].cur = selectedCurrencyId

\* Three runs: the coin was changed, then the currency.
C15_Witness ==
    /\ LastCycle = 3
    /\ cycles[1].aborted
    /\ cycles[2].aborted
    /\ ~cycles[3].aborted
    /\ cycles[3].coin # cycles[1].coin
    /\ cycles[3].cur # cycles[1].cur

\* C16: whatever fields the snapshot response lacks, the step writes the
\* run's snapshot and the run does not end in Failed.
C16_AbsenceNeverFails ==
    [][\A i \in Cycle, body \in DetailsBodies :
          DetailsResponds(i, body) =>
              /\ coinDetails'.present
              /\ coinDetails'.cycle = i
              /\ cycles'[i].results = <<>>
              /\ error' = error]_vars

\* The snapshot and the series held were written by one run, which ended
\* in Success and was started for the current selection.
DataOfSelection ==
    /\ coinDetails.present
    /\ coinDetails.cycle = chartData.cycle
    /\ cycles[coinDetails.cycle].results = <<"success">>
    /\ coinDetails.id = selectedCoinId
    /\ coinDetails.cur = selectedCurrencyId

\* C17: whenever the generate button is enabled, and whenever a prompt is
\* built, the data held is that of a completed run for the current
\* selection.
C17_PromptMatchesSelection ==
    /\ [](~GenerateDisabled => DataOfSelection)
    /\ [][gen'.inflight > gen.inflight => DataOfSelection]_vars

\* C18: loading is true while the newest run is awaiting a request, and it
\* becomes false only in a step in which the newest run reaches Success or
\* Failed.
C18_LoadingWhileOutstanding ==
    /\ []((LastCycle >= 1 /\ cycles[LastCycle].pc \in Awaiting) => loading)
    /\ [][(loading /\ ~loading') =>
            /\ LastCycle >= 1
            /\ cycles[LastCycle].results = <<>>
            /\ cycles'[LastCycle].results # <<>>]_vars

\* C19: while the error is set there is no snapshot and no series, and the
\* step that starts a run leaves the error unset.
C19_ErrorExcludesData ==
    /\ [](error # NoError => (coinDetails = NoDetails /\ chartData = NoChart))
    /\ [][Len(cycles') > Len(cycles) => error' = NoError]_vars

\* A run failed, and the next run has since written its snapshot with the
\* error reset.
C19_Witness ==
    /\ LastCycle >= 2
    /\ cycles[LastCycle - 1].results = <<"failed">>
    /\ coinDetails.present
    /\ coinDetails.cycle = LastCycle
    /\ error = NoError

\* C20: a step of the fetch effect (it changes the selection or a run)
\* leaves analysisText and generatingAnalysis unchanged, and a step of
\* generateAnalysis (it changes analysisText, generatingAnalysis or the
\* call in flight) leaves the snapshot, the series, the error and the
\* loading flag unchanged.
C20_Independent ==
    /\ [][(cycles' # cycles \/ selectedCoinId' # selectedCoinId
             \/ selectedCurrencyId' # selectedCurrencyId) =>
            UNCHANGED <<analysisText, generatingAnalysis, gen>>]_vars
    /\ [][(gen' # gen \/ analysisText' # analysisText
             \/ generatingAnalysis' # generatingAnalysis) =>
            UNCHANGED <<coinDetails, chartData, error, loading, cycles,
                        selectedCoinId, selectedCurrencyId>>]_vars

\* The analysis generated for bitcoin is still held after the coin was
\* changed to ethereum and ethereum's data arrived.
C20_Witness ==
    /\ analysisText = CandidateText("Bitcoin")
    /\ selectedCoinId = "ethereum"
    /\ coinDetails.present
    /\ coinDetails.id = "ethereum"
    /\ Len(chartData.points) > 0
    /\ chartData.cycle = coinDetails.cycle
====
